---- MODULE Spec2Model ----
(***************************************************************************)
(* A model of the hash-chained transaction ledger: the record model and    *)
(* its line codec (transaction.rs), the in-memory index, the file log and  *)
(* the dual log (transaction_log.rs), and the write queue                  *)
(* (transaction_queue.rs).                                                 *)
(*                                                                         *)
(* Strings are modelled as sequences of field tokens (the pieces between   *)
(* the ';' separators).  A token records how the field is written, so that *)
(* formatting and parsing are different functions.  SHA-256 is modelled as *)
(* a collision-free constructor over its input.                            *)
(***************************************************************************)
EXTENDS Integers, Sequences, FiniteSets, TLC

----------------------------------------------------------------------------
(* Option and Result values *)

None == [k |-> "None"]

Some(x) == [k |-> "Some", v |-> x]

Ok(x) == [k |-> "Ok", v |-> x]

Err(e) == [k |-> "Err", e |-> e]

Unit == [k |-> "Unit"]

IsOk(r) == r.k = "Ok"

IsErr(r) == r.k = "Err"

IsSome(o) == o.k = "Some"

----------------------------------------------------------------------------
(* Bounds of the model *)

\* Transaction::MAX_ID is 99_999_999 in transaction.rs; the model keeps the
\* wrap-around rule of next_id and scales the value so that the wrap is
\* reachable by the model checker.
MAX_ID == 3

\* most lines a ledger file holds in the model
MaxLines == 4

\* most records the in-memory index scenario creates
MaxCreates == 5

\* most PUT requests the handlers accept: enough for MAX_ID + 1 creates
MaxRequests == 4

\* most messages the producers send to the write queue: enough for
\* MAX_ID + 1 drafts followed by Flush and Finish
MaxSends == 6

\* TransactionQueue::QUEUE_SIZE is 64 in transaction_queue.rs, the capacity
\* the worker's VecDeque is created with; the model scales the value so
\* that more drafts than that can arrive between two flushes.
QUEUE_SIZE == 2

\* messages sent in a run checked for termination
MaxFairSends == 3

----------------------------------------------------------------------------
(* Program constants *)

MIN_ID == 1

MIN_GID == 0

MAX_GID == 99

MIN_PID == 0

MAX_PID == 99

U8_MAX == 255

\* width of "{id:08}"
ID_WIDTH == 8

\* width of "{gid:02}" and "{pid:02}"
GP_WIDTH == 2

\* bytes of "%d%m%y-%H:%M:%S"
TS_BYTES == 15

\* bytes of the hex string of a SHA-256 digest
HEX_BYTES == 64

\* chunk_size of SimpleFileLog::last
CHUNK_SIZE == 10240

\* The characters check_input refuses: "\n", "\r", "\t", ";", "\0".
INVALID_CHAR == {"LF", "CR", "TAB", "SEMI", "NUL"}

----------------------------------------------------------------------------
(* Texts, timestamps and tokens *)

\* A text is n repetitions of the character ch.
Text(ch, n) == [k |-> "text", ch |-> ch, n |-> n]

\* UTF-8 width of a character: "ue" stands for the two-byte character 'ü'.
CharWidth(ch) == IF ch = "ue" THEN 2 ELSE 1

TextContains(text, c) == text.n > 0 /\ text.ch = c

Ndigits(v) ==
    IF v < 10 THEN 1
    ELSE IF v < 100 THEN 2
    ELSE IF v < 1000 THEN 3
    ELSE IF v < 10000 THEN 4
    ELSE IF v < 100000 THEN 5
    ELSE IF v < 1000000 THEN 6
    ELSE IF v < 10000000 THEN 7
    ELSE IF v < 100000000 THEN 8
    ELSE IF v < 1000000000 THEN 9
    ELSE 10

Max(a, b) == IF a >= b THEN a ELSE b

Pow10(n) ==
    CASE n = 0 -> 1
      [] n = 1 -> 10
      [] n = 2 -> 100
      [] n = 3 -> 1000
      [] n = 4 -> 10000
      [] n = 5 -> 100000
      [] n = 6 -> 1000000
      [] n = 7 -> 10000000
      [] OTHER -> 100000000

\* A decimal number written with `width` characters (leading zeros).
NumTok(v, width) == [k |-> "num", val |-> v, width |-> width]

\* format!("{:0w}", v)
FmtNum(v, w) == NumTok(v, Max(w, Ndigits(v)))

\* A timestamp written as ddmmyy-HH:MM:SS: whole seconds only.
TsTok(sec) == [k |-> "ts", sec |-> sec]

\* ts.format("%d%m%y-%H:%M:%S")
FmtTs(ts) == TsTok(ts.sec)

\* A hex string: the bytes it spells, how it is written ("upper", "lower",
\* "odd" for an odd number of digits, "nonhex" for a non-hex character) and
\* the white space that follows it.
HexTok(bytes, form, ws) == [k |-> "hex", bytes |-> bytes, form |-> form, ws |-> ws]

\* A field that is no number, timestamp or hex string.
BadTok(len) == [k |-> "bad", len |-> len]

TokBytes(tok) ==
    CASE tok.k = "num" -> tok.width
      [] tok.k = "ts" -> TS_BYTES
      [] tok.k = "text" -> tok.n * CharWidth(tok.ch)
      [] tok.k = "hex" -> HEX_BYTES + tok.ws
      [] OTHER -> tok.len

----------------------------------------------------------------------------
(* transaction.rs: the record model *)

\* Sha256 over the concatenation of the inputs fed to the hasher.
Sha256(input) == [sha256 |-> input]

\* check_input without the test of the text
check_input_ignoring_text(id, gid, pid, text) ==
    IF id < MIN_ID \/ id > MAX_ID THEN Err("Invalid id")
    ELSE IF gid < MIN_GID \/ gid > MAX_GID THEN Err("Invalid group id")
    ELSE IF pid < MIN_PID \/ pid > MAX_PID THEN Err("Invalid process id")
    ELSE Ok(Unit)

check_input(id, gid, pid, text) ==
    IF id < MIN_ID \/ id > MAX_ID THEN Err("Invalid id")
    ELSE IF gid < MIN_GID \/ gid > MAX_GID THEN Err("Invalid group id")
    ELSE IF pid < MIN_PID \/ pid > MAX_PID THEN Err("Invalid process id")
    ELSE IF \E c \in INVALID_CHAR : TextContains(text, c)
         THEN Err("Invalid text message")
    ELSE Ok(Unit)

partial_string(id, ts, gid, pid, text) ==
    << FmtNum(id, ID_WIDTH), FmtTs(ts), FmtNum(gid, GP_WIDTH),
       FmtNum(pid, GP_WIDTH), text >>

hash_string(hash) == HexTok(hash, "upper", 0)

Transaction(id, time, gid, pid, text, hash) ==
    [id |-> id, timestamp |-> time, group_id |-> gid, process_id |-> pid,
     text |-> text, hash |-> hash, hash_str |-> hash_string(hash)]

\* with_log, and with_log hashing the digest of the previous record in
\* place of its hex string.  `last` is the result of log.last(): None or
\* Some(previous record).
with_log_raw_bytes(last, id, time, gid, pid, text) ==
    LET chk == check_input(id, gid, pid, text)
        data == partial_string(id, time, gid, pid, text)
        input == IF IsSome(last) THEN data \o <<last.v.hash>> ELSE data
    IN  IF IsErr(chk) THEN chk
        ELSE Ok(Transaction(id, time, gid, pid, text, Sha256(input)))

with_log(last, id, time, gid, pid, text) ==
    LET chk == check_input(id, gid, pid, text)
        data == partial_string(id, time, gid, pid, text)
        input == IF IsSome(last) THEN data \o <<last.v.hash_str>> ELSE data
    IN  IF IsErr(chk) THEN chk
        ELSE Ok(Transaction(id, time, gid, pid, text, Sha256(input)))

with_hash(hash, id, time, gid, pid, text) ==
    LET chk == check_input(id, gid, pid, text)
    IN  IF IsErr(chk) THEN chk
        ELSE Ok(Transaction(id, time, gid, pid, text, hash))

to_data_string(tx) ==
    partial_string(tx.id, tx.timestamp, tx.group_id, tx.process_id, tx.text)

to_string(tx) == to_data_string(tx) \o <<tx.hash_str>>

\* next_id without the wrap at MAX_ID
next_id_unbounded(tx) == tx.id + 1

next_id(tx) == IF tx.id >= MAX_ID THEN MIN_ID ELSE tx.id + 1

\* verify with the test of the hash ahead of the test of the Id
verify_hash_first(curr, prev) ==
    IF Sha256(to_data_string(curr) \o <<prev.hash_str>>) # curr.hash
    THEN Err("Missmatched hashes")
    ELSE IF curr.id # next_id(prev) THEN Err("Non-consecutive IDs")
    ELSE Ok(Unit)

verify(curr, prev) ==
    IF curr.id # next_id(prev) THEN Err("Non-consecutive IDs")
    ELSE IF Sha256(to_data_string(curr) \o <<prev.hash_str>>) # curr.hash
         THEN Err("Missmatched hashes")
    ELSE Ok(Unit)

verify_single(tx) ==
    IF Sha256(to_data_string(tx)) # tx.hash THEN Err("Missmatched hashes")
    ELSE Ok(Unit)

----------------------------------------------------------------------------
(* transaction.rs: Transaction::parse.  `src` is the line split at ';'. *)

\* str::parse::<u32>() of a field; every number the model writes is below
\* 2^32, so that a field of digits always fits
ParseU32(tok) ==
    IF tok.k = "num" /\ tok.width >= 1 THEN Ok(tok.val)
    ELSE Err("not a number")

\* str::parse::<u8>() of a field
ParseU8(tok) ==
    IF tok.k = "num" /\ tok.width >= 1 /\ tok.val <= U8_MAX THEN Ok(tok.val)
    ELSE Err("not a number")

\* datetime_from_str(field, "%d%m%y-%H:%M:%S")
ParseTs(tok) ==
    IF tok.k = "ts" THEN Ok([sec |-> tok.sec, nanos |-> 0])
    ELSE Err("not a timestamp")

\* the loop over pairs of characters of the trimmed hash field
ParseHex(tok) ==
    IF tok.k = "bad" /\ tok.len = 0 THEN Ok(<<>>)
    ELSE IF tok.k # "hex" \/ tok.form = "nonhex" THEN Err("could not parse hash")
    ELSE IF tok.form = "odd" THEN Err("Invalid hash length")
    ELSE Ok(tok.bytes)

\* the end of parse: `t` is the result of try_finish_with_hash, `parts` the
\* number of fields of the line
parse_end(t, parts) ==
    IF IsErr(t) THEN t
    ELSE IF parts > 6 THEN Err("Invalid source, too many parts")
    ELSE t

parse(src) ==
    IF Len(src) < 1 \/ IsErr(ParseU32(src[1]))
    THEN Err("Could not parse id")
    ELSE IF Len(src) < 2 THEN Err("Incomplete source, no id")
    ELSE IF IsErr(ParseTs(src[2])) THEN Err("Could not parse timstamp")
    ELSE IF Len(src) < 3 THEN Err("Incomplete source, no gid")
    ELSE IF IsErr(ParseU8(src[3])) THEN Err("Could not parse gid")
    ELSE IF Len(src) < 4 THEN Err("Incomplete source, no pid")
    ELSE IF IsErr(ParseU8(src[4])) THEN Err("Could not parse pid")
    ELSE IF Len(src) < 5 THEN Err("Incomplete source, no text")
    ELSE IF Len(src) < 6 THEN Err("Incomplete source, no hash")
    ELSE IF IsErr(ParseHex(src[6])) THEN ParseHex(src[6])
    ELSE parse_end(with_hash(ParseHex(src[6]).v, src[1].val, ParseTs(src[2]).v,
                             src[3].val, src[4].val, src[5]),
                   Len(src))

----------------------------------------------------------------------------
(* transaction_log.rs: the parts of the record API it calls *)

\* TransactionId::default(): the Id of the first record of a ledger.
TransactionId_default == MIN_ID

\* TransactionData: the validated payload (group, process, text).
TransactionData(gid, pid, text) == [gid |-> gid, pid |-> pid, text |-> text]

\* Transaction::new(id, time, data, prev): built from validated components.
Transaction_new(id, time, data, prev) ==
    with_log(prev, id, time, data.gid, data.pid, data.text).v

\* verify_transaction(tx, prev): prev is None or Some(record).
verify_transaction(tx, prev) ==
    IF IsSome(prev) THEN verify(tx, prev.v) ELSE verify_single(tx)

\* TransactionLog::next_id, over the result of self.last()
TransactionLog_next_id(last) ==
    IF ~IsOk(last) THEN last
    ELSE IF IsSome(last.v) THEN Ok(next_id(last.v.v))
    ELSE Ok(TransactionId_default)

----------------------------------------------------------------------------
(* transaction_log.rs: FullTransactionLog, a BTreeMap from Id to record *)

EmptyMap == <<>>

MapInsert(m, key, val) ==
    [x \in DOMAIN m \cup {key} |-> IF x = key THEN val ELSE m[x]]

MaxKey(m) == CHOOSE x \in DOMAIN m : \A y \in DOMAIN m : y <= x

RECURSIVE KeysAscending(_)
KeysAscending(S) ==
    IF S = {} THEN <<>>
    ELSE LET lo == CHOOSE x \in S : \A y \in S : x <= y
         IN  <<lo>> \o KeysAscending(S \ {lo})

Full_last(log) ==
    IF DOMAIN log = {} THEN Ok(None) ELSE Ok(Some(log[MaxKey(log)]))

Full_get_by_id(log, id) ==
    IF id \in DOMAIN log THEN Ok(Some(log[id])) ELSE Ok(None)

Full_get_all(log) ==
    LET keys == KeysAscending(DOMAIN log)
    IN  Ok([i \in 1..Len(keys) |-> log[keys[i]]])

\* create: the new map and the record returned
Full_create(log, data, time) ==
    LET nid == TransactionLog_next_id(Full_last(log)).v
        last == Full_last(log).v
        tx == Transaction_new(nid, time, data, last)
    IN  [log |-> MapInsert(log, tx.id, tx), ret |-> Ok(tx)]

----------------------------------------------------------------------------
(* transaction_log.rs: SimpleFileLog.  The file at the path exists or not; *)
(* its content is a sequence of newline-terminated lines, each line the    *)
(* sequence of its fields.                                                 *)

NoFile == [exists |-> FALSE, lines |-> <<>>]

FileOf(lines) == [exists |-> TRUE, lines |-> lines]

Panic(msg) == [k |-> "Panic", e |-> msg]

RECURSIVE SumTokBytes(_)
SumTokBytes(toks) ==
    IF toks = <<>> THEN 0 ELSE TokBytes(Head(toks)) + SumTokBytes(Tail(toks))

\* bytes of a line: its fields, the ';' between them, and the "\n"
LineBytes(line) == SumTokBytes(line) + (Len(line) - 1) + 1

RECURSIVE FileBytes(_)
FileBytes(lines) ==
    IF lines = <<>> THEN 0 ELSE LineBytes(Head(lines)) + FileBytes(Tail(lines))

\* byte offset of the text field of a line
TextOffset(line) == SumTokBytes(SubSeq(line, 1, 4)) + 4

\* Dropping the first k bytes of a line (0 < k < LineBytes(line)) leaves
\* bytes that are no UTF-8 when the cut falls inside a character of the text.
CutSplitsChar(line, k) ==
    /\ Len(line) >= 5
    /\ line[5].k = "text"
    /\ k > TextOffset(line)
    /\ k < TextOffset(line) + TokBytes(line[5])
    /\ (k - TextOffset(line)) % CharWidth(line[5].ch) # 0

\* The line left when its first k bytes are dropped.  A cut inside the
\* digits of the first field leaves a shorter number; any later cut leaves
\* a line whose first two fields are no number followed by a timestamp,
\* which is all that parse looks at before it fails.
CutLine(line, k) ==
    IF line[1].k = "num" /\ k < line[1].width
    THEN [line EXCEPT ![1] = NumTok(line[1].val % Pow10(line[1].width - k),
                                    line[1].width - k)]
    ELSE <<BadTok(LineBytes(line) - 1 - k)>>

\* The lines of the string read from start_pos to the end of the file, or
\* Err when the bytes read are no UTF-8.
RECURSIVE ReadFrom(_, _)
ReadFrom(lines, start_pos) ==
    IF lines = <<>> THEN Ok(<<>>)
    ELSE IF start_pos >= LineBytes(Head(lines))
         THEN ReadFrom(Tail(lines), start_pos - LineBytes(Head(lines)))
    ELSE IF start_pos = 0 THEN Ok(lines)
    ELSE IF CutSplitsChar(Head(lines), start_pos)
         THEN Err("Io: stream did not contain valid UTF-8")
    ELSE Ok(<<CutLine(Head(lines), start_pos)>> \o Tail(lines))

\* Result::ok(): Some(value) of an Ok, None of an Err
Result_ok(r) == IF IsOk(r) THEN Some(r.v) ELSE None

\* line.parse::<Transaction>().ok()
ParseOk(line) == Result_ok(parse(line))

\* the first byte read: the file size less the chunk size, or 0
StartPos(file_size) ==
    IF file_size < CHUNK_SIZE THEN 0 ELSE file_size - CHUNK_SIZE

\* the match on (second_last_tx, last_tx)
MatchLast(last2_tx, last_tx) ==
    CASE IsSome(last2_tx) /\ IsSome(last_tx) ->
           IF IsErr(verify_transaction(last_tx.v, last2_tx))
           THEN Err("Verify") ELSE Ok(last_tx)
      [] ~IsSome(last2_tx) /\ IsSome(last_tx) ->
           IF IsErr(verify_transaction(last_tx.v, None))
           THEN Err("Verify") ELSE Ok(last_tx)
      [] ~IsSome(last2_tx) /\ ~IsSome(last_tx) -> Ok(last_tx)
      [] OTHER -> Panic("Unexpected file behavior")

\* the last two lines of the buffer, parsed and matched
LastOfLines(lines) ==
    MatchLast(IF Len(lines) >= 2 THEN ParseOk(lines[Len(lines) - 1]) ELSE None,
              IF Len(lines) >= 1 THEN ParseOk(lines[Len(lines)]) ELSE None)

\* `buffer` is the result of the seek and read_to_string
LastOfBuffer(buffer) ==
    IF IsErr(buffer) THEN buffer ELSE LastOfLines(buffer.v)

\* last() that takes a missing file for an empty one
File_last_missing_as_empty(file) ==
    LastOfBuffer(ReadFrom(file.lines, StartPos(FileBytes(file.lines))))

File_last(file) ==
    IF ~file.exists THEN Err("Io: No such file")
    ELSE LastOfBuffer(ReadFrom(file.lines, StartPos(FileBytes(file.lines))))

\* the turn of the loop without the verification
GetAllStep_unverified(tx, last_tx) ==
    IF IsErr(tx) THEN Err("Transaction") ELSE Ok(tx.v)

\* one turn of the loop of get_all, `tx` the parse of the line
GetAllStep(tx, last_tx) ==
    IF IsErr(tx) THEN Err("Transaction")
    ELSE IF IsErr(verify_transaction(tx.v, last_tx)) THEN Err("Verify")
    ELSE Ok(tx.v)

\* get_all: every line parsed and verified against the line before it
RECURSIVE GetAllFrom(_, _, _), GetAllNext(_, _, _)
GetAllFrom(lines, last_tx, vec) ==
    IF lines = <<>> THEN Ok(vec)
    ELSE GetAllNext(GetAllStep(parse(Head(lines)), last_tx), Tail(lines), vec)

GetAllNext(step, rest, vec) ==
    IF IsErr(step) THEN step
    ELSE GetAllFrom(rest, Some(step.v), Append(vec, step.v))

File_get_all(file) ==
    IF ~file.exists THEN Err("Io: No such file")
    ELSE GetAllFrom(file.lines, None, <<>>)

\* the append with the line written at the start of the file
File_append_at_start(file, tx) ==
    [file |-> FileOf(<<to_string(tx)>> \o file.lines), ret |-> Ok(tx)]

\* create: the new file content and the result.  `io_ok` is whether the
\* open, seek and write of the append succeed.
File_append(file, tx) ==
    [file |-> FileOf(Append(file.lines, to_string(tx))), ret |-> Ok(tx)]

\* the create that takes a failed last() for an empty ledger
File_create_after_unchecked(last, file, data, time, io_ok) ==
    IF ~io_ok THEN [file |-> file, ret |-> Err("Io: append failed")]
    ELSE IF ~IsOk(last)
         THEN File_append(file, Transaction_new(TransactionId_default, time,
                                                data, None))
    ELSE File_append(file, Transaction_new(TransactionLog_next_id(last).v,
                                           time, data, last.v))

\* create after self.next_id() and self.last(), which both answer `last`
File_create_after(last, file, data, time, io_ok) ==
    IF ~IsOk(TransactionLog_next_id(last))
    THEN [file |-> file, ret |-> TransactionLog_next_id(last)]
    ELSE IF ~IsOk(last) THEN [file |-> file, ret |-> last]
    ELSE IF ~io_ok THEN [file |-> file, ret |-> Err("Io: append failed")]
    ELSE File_append(file, Transaction_new(TransactionLog_next_id(last).v,
                                           time, data, last.v))

File_create(file, data, time, io_ok) ==
    File_create_after(File_last(file), file, data, time, io_ok)

----------------------------------------------------------------------------
(* transaction_log.rs: DualLog *)

RECURSIVE MapFromSeq(_, _)
MapFromSeq(all, m) ==
    IF all = <<>> THEN m
    ELSE MapFromSeq(Tail(all), MapInsert(m, Head(all).id, Head(all)))

\* load: Ok(the index) or the error of get_all
Dual_collect(all) ==
    IF IsErr(all) THEN all ELSE Ok(MapFromSeq(all.v, EmptyMap))

Dual_load(file) == Dual_collect(File_get_all(file))

\* the insert into the index after file_log.create()? answered `r`
Dual_insert(full_log, r) ==
    IF ~IsOk(r.ret) THEN [full_log |-> full_log, file |-> r.file, ret |-> r.ret]
    ELSE [full_log |-> MapInsert(full_log, r.ret.v.id, r.ret.v),
          file |-> r.file, ret |-> r.ret]

\* create with the insert into the index ahead of the append to the file
Dual_create_insert_first(full_log, file, data, time, io_ok) ==
    [ Dual_insert(full_log, File_create(file, data, time, TRUE))
        EXCEPT !.file = File_create(file, data, time, io_ok).file,
               !.ret = File_create(file, data, time, io_ok).ret ]

Dual_create(full_log, file, data, time, io_ok) ==
    Dual_insert(full_log, File_create(file, data, time, io_ok))

Dual_last(full_log) == Full_last(full_log)

Dual_get_by_id(full_log, id) == Full_get_by_id(full_log, id)

Dual_get_all(full_log) == Full_get_all(full_log)

----------------------------------------------------------------------------
(* transaction_queue.rs: the worker of TransactionQueue *)

QueuedTransaction(text, gid, pid) == [text |-> text, gid |-> gid, pid |-> pid]

Queue(qtx) == [k |-> "Queue", qtx |-> qtx]

Flush == [k |-> "Flush"]

Finish == [k |-> "Finish"]

\* log.append(tx) on the store the worker owns
Log_append(log, tx) == MapInsert(log, tx.id, tx)

\* the builder chain of flush for the draft `d`: the id is log.next_id()
flush_build(log, d, now) ==
    with_log(Full_last(log).v, TransactionLog_next_id(Full_last(log)).v, now,
             d.gid, d.pid, d.text)

\* The loop of flush over q.drain(..): the store after it, the records it
\* appended in order, whether an unwrap() panicked, and the buffer after it
\* (drain(..) leaves it empty, also when the loop is left by a panic).
RECURSIVE flush_loop(_, _, _, _), flush_turn(_, _, _, _, _)
flush_loop(log, q, now, out) ==
    IF q = <<>> THEN [log |-> log, out |-> out, panic |-> FALSE, q |-> <<>>]
    ELSE CHOOSE r \in {flush_turn(log, q, now, out, tx) :
                           tx \in {flush_build(log, Head(q), now)}} : TRUE

\* one turn of the loop, `tx` the result of try_finish_with_log; the store
\* and the records appended are computed before the next turn starts
flush_turn(log, q, now, out, tx) ==
    IF IsErr(tx)
    THEN [log |-> log, out |-> out, panic |-> TRUE, q |-> <<>>]
    ELSE CHOOSE r \in {flush_loop(log2, Tail(q), now, out2) :
                           log2 \in {Log_append(log, tx.v)},
                           out2 \in {Append(out, tx.v)}} : TRUE

\* the flush that passes over the drafts that cannot be built
flush_skipping_failures(log, q, now) ==
    flush_loop(log,
               SelectSeq(q, LAMBDA d :
                                IsOk(check_input(MIN_ID, d.gid, d.pid, d.text))),
               now, <<>>)

flush_back_to_front(log, q, now) ==
    flush_loop(log, [i \in 1..Len(q) |-> q[Len(q) + 1 - i]], now, <<>>)

flush(log, q, now) == flush_loop(log, q, now, <<>>)

\* What the Finish arm runs before `break`.
finish_without_flush(log, q, now) ==
    [log |-> log, out |-> <<>>, panic |-> FALSE, q |-> q]

finish_flush(log, q, now) == flush(log, q, now)

\* thread.join() once the worker thread has ended: Err with the payload of
\* the panic, or Ok(())
join(w) == IF w = "panicked" THEN Err("panic") ELSE Ok(Unit)

----------------------------------------------------------------------------
(* routes.rs: the Mutex of TransactionLogState *)

Poisoned == [k |-> "Poisoned"]

Blocked == [k |-> "Blocked"]

\* Mutex::lock() called by handler h: the guard (the mutex held by h), the
\* error of a poisoned mutex, or Blocked while another handler holds it
Mutex_lock(m, h) ==
    IF m = Poisoned THEN Err("PoisonError")
    ELSE IF m = None THEN Ok(Some(h))
    ELSE Blocked

----------------------------------------------------------------------------
(* State *)

VARIABLES
    t_log,      \* record scenario: log.last() of the log records are built on
    t_cur,      \* the record at hand: None or Some(record)
    t_origin,   \* "none", "built" (by with_log) or "parsed" (by parse)
    t_line,     \* the stored line of the record: None or Some(line)
    t_tamper,   \* the field of the stored line that was changed ("id",
                \* "text", "hash"), or "none"
    t_res,      \* the error of the last build or parse, the result of the
                \* last verify of t_cur, or None
    m_log,      \* FullTransactionLog.log
    m_created,  \* the records create has returned, in order
    file,       \* the content of the file at SimpleFileLog.path
    full_log,   \* DualLog.full_log.log
    d_state,    \* "file" (a SimpleFileLog alone), "unloaded", "loaded", "failed"
    d_ret,      \* the result of the last load or create, or None
    d_clean,    \* the file started empty and only create has written it
    chan,       \* the messages sent to the worker and not yet received
    queue,      \* the worker's VecDeque of drafts
    wstate,     \* the worker thread: "run", "done" (left the loop), "panicked"
    q_log,      \* the store the worker owns
    sent,       \* every message sent, in channel order
    appended,   \* every record the worker appended, in order
    c_step,     \* codec scenario: the step reached ("args", "built", "str",
                \* "back" from arguments; "line", "parsed", "again" from a line)
    c_in,       \* the arguments given to the builder, or None
    c_line,     \* the line given to parse, or None
    c_built,    \* the result of try_finish_with_log, or None
    c_rec,      \* the record at hand (built or parsed), or None
    c_str,      \* the result of to_string, or None
    c_parse,    \* the result of parse, or None
    c_next,     \* the result of next_id, or None
    r_pc,       \* request handlers: "idle", "locked" (holds the guard),
                \* "read" (create has read the tail), "failed" (panicked)
    r_lock,     \* the Mutex around the DualLog: None, Some(holder), Poisoned
    r_in,       \* per handler: the data and time of its request, or None
    r_last,     \* per handler: what self.last() answered inside create
    r_created,  \* the records the handlers created, in order
    r_count,    \* the requests accepted so far
    p_pc,       \* per producer: the messages of its script it has sent
    joined,     \* the result of TransactionQueue::join, or None
    f_read      \* the last read of the file log in a run of the file
                \* scenario: None, or Some of the call ("last", "get_all")
                \* and its result on `file`

txVars == <<t_log, t_cur, t_origin, t_line, t_tamper, t_res>>

memVars == <<m_log, m_created>>

fileVars == <<file, full_log, d_state, d_ret, d_clean>>

queueVars == <<chan, queue, wstate, q_log, sent, appended>>

codecVars == <<c_step, c_in, c_line, c_built, c_rec, c_str, c_parse, c_next>>

routeVars == <<r_pc, r_lock, r_in, r_last, r_created, r_count>>

readVars == <<f_read>>

joinVars == <<joined>>

prodVars == <<p_pc>>

vars == <<txVars, memVars, fileVars, queueVars, codecVars, routeVars, readVars, joinVars, prodVars>>

----------------------------------------------------------------------------
(* Inputs *)

Time(sec, nanos) == [sec |-> sec, nanos |-> nanos]

\* timestamps a caller passes (whole seconds)
Times == {Time(0, 0), Time(1, 0)}

\* Utc::now() of with_current_timestamp
NowTimes == {Time(2, 500)}

\* ids a caller may pass to the builder
BuildIds == (MIN_ID - 1)..(MAX_ID + 1)

BuildGids == {0, 100}

BuildPids == {1}

BuildTexts == {Text("a", 1), Text("b", 2), Text("SEMI", 1)}

\* values a changed text field may take
TamperTexts == {Text("a", 1), Text("b", 2), Text("a", 2), Text("TAB", 1)}

\* values a changed hash field may take: the same digits in lower case, the
\* same digits followed by a blank, another digest, an odd number of digits,
\* a non-hex character
TamperHashes(tok) ==
    {HexTok(tok.bytes, "lower", 0), HexTok(tok.bytes, "upper", 1),
     HexTok(Sha256(<<>>), "upper", 0), HexTok(tok.bytes, "odd", 0),
     HexTok(tok.bytes, "nonhex", 0)}

\* payloads handed to create: short, long, and long with two-byte characters
\* (the lengths make the tail chunk start inside a character after some
\* creates and between two characters after others)
Datas ==
    {TransactionData(0, 1, Text("a", 3)),
     TransactionData(0, 1, Text("a", 6000)),
     TransactionData(0, 1, Text("ue", 5100))}

\* drafts producers enqueue: two valid ones and one with an invalid group
Drafts ==
    {QueuedTransaction(Text("a", 1), 0, 1),
     QueuedTransaction(Text("b", 1), 0, 1),
     QueuedTransaction(Text("a", 1), 100, 1)}

FirstRecord == with_log(None, MIN_ID, Time(0, 0), 0, 1, Text("a", 2)).v

SecondRecord ==
    with_log(Some(FirstRecord), next_id(FirstRecord), Time(1, 0), 0, 1,
             Text("b", 2)).v

GarbageLine == <<BadTok(5)>>

\* the file an earlier run left after n creates with short texts
RECURSIVE LedgerOf(_)
LedgerOf(n) ==
    IF n = 0 THEN FileOf(<<>>)
    ELSE File_create(LedgerOf(n - 1), TransactionData(0, 1, Text("a", 2)),
                     Time(0, 0), TRUE).file

\* files found at the path when the program starts: none, an empty one,
\* ledgers an earlier run wrote (one of them with more than MAX_ID
\* records), and damaged ones
InitFiles ==
    {NoFile,
     FileOf(<<>>),
     LedgerOf(MAX_ID + 1),
     FileOf(<<to_string(FirstRecord)>>),
     FileOf(<<to_string(FirstRecord), to_string(SecondRecord)>>),
     FileOf(<<GarbageLine>>),
     FileOf(<<GarbageLine, GarbageLine>>),
     FileOf(<<to_string(FirstRecord), GarbageLine>>),
     FileOf(<<to_string(FirstRecord), to_string(FirstRecord)>>),
     FileOf(<<[to_string(FirstRecord) EXCEPT ![5] = Text("b", 2)]>>)}

----------------------------------------------------------------------------
(* Initial states *)

TxIdle ==
    /\ t_log = None
    /\ t_cur = None
    /\ t_origin = "none"
    /\ t_line = None
    /\ t_tamper = "none"
    /\ t_res = None

MemIdle ==
    /\ m_log = EmptyMap
    /\ m_created = <<>>

FileIdle ==
    /\ file = NoFile
    /\ full_log = EmptyMap
    /\ d_state = "off"
    /\ d_ret = None
    /\ d_clean = FALSE

QueueIdle ==
    /\ chan = <<>>
    /\ queue = <<>>
    /\ wstate = "off"
    /\ q_log = EmptyMap
    /\ sent = <<>>
    /\ appended = <<>>

\* the threads that run write_transaction
Handlers == {"h1", "h2"}

\* threads that hold a clone of the sender; the owner sends Finish
Producers == {"p1", "p2", "owner"}

\* what each producer sends, in its order: p1 enqueues as many drafts as
\* there are Ids and flushes, p2 enqueues, flushes and enqueues again; the
\* process id of a draft names its producer
Script(p) ==
    CASE p = "p1" -> [i \in 1..(MAX_ID + 1) |->
                         IF i <= MAX_ID
                         THEN Queue(QueuedTransaction(Text("a", i), 0, 1))
                         ELSE Flush]
      [] p = "p2" -> <<Queue(QueuedTransaction(Text("b", 1), 0, 2)), Flush,
                      Queue(QueuedTransaction(Text("b", 2), 0, 2))>>
      [] OTHER -> <<Finish>>

RouteIdle ==
    /\ r_pc = [h \in Handlers |-> "off"]
    /\ r_lock = None
    /\ r_in = [h \in Handlers |-> None]
    /\ r_last = [h \in Handlers |-> None]
    /\ r_created = <<>>
    /\ r_count = 0

ReadIdle == f_read = None

JoinIdle == joined = None

ProdIdle == p_pc = [p \in Producers |-> 0]

CodecIdle ==
    /\ c_step = "off"
    /\ c_in = None
    /\ c_line = None
    /\ c_built = None
    /\ c_rec = None
    /\ c_str = None
    /\ c_parse = None
    /\ c_next = None

----------------------------------------------------------------------------
(* Record scenario: build, append, verify, store, change, parse again     *)
(* (the steps of the tests verify1 and verify2 of transaction.rs)         *)

InitTx ==
    /\ t_log = None
    /\ t_cur = None
    /\ t_origin = "none"
    /\ t_line = None
    /\ t_tamper = "none"
    /\ t_res = None
    /\ MemIdle /\ FileIdle /\ QueueIdle /\ CodecIdle /\ RouteIdle /\ ReadIdle /\ JoinIdle /\ ProdIdle

\* Transaction::build()...try_finish_with_log(&log)
TxBuild(id, ts, gid, pid, text) ==
    /\ t_cur = None
    /\ t_line = None
    /\ LET r == with_log(t_log, id, ts, gid, pid, text)
       IN  /\ t_res' = IF IsOk(r) THEN None ELSE Some(r)
           /\ t_cur' = IF IsOk(r) THEN Some(r.v) ELSE None
           /\ t_origin' = IF IsOk(r) THEN "built" ELSE t_origin
    /\ UNCHANGED <<t_log, t_line, t_tamper>>
    /\ UNCHANGED <<memVars, fileVars, queueVars, codecVars, routeVars, readVars, joinVars, prodVars>>

\* log.append(tx): the record becomes the last entry of the log
TxAppend ==
    /\ t_cur # None
    /\ t_origin = "built"
    /\ t_log = None
    /\ t_log' = t_cur
    /\ t_cur' = None
    /\ t_origin' = "none"
    /\ t_res' = None
    /\ UNCHANGED <<t_line, t_tamper>>
    /\ UNCHANGED <<memVars, fileVars, queueVars, codecVars, routeVars, readVars, joinVars, prodVars>>

\* Transaction::verify(&tx, &prev), or verify_single(&tx) for a first record
TxVerify ==
    /\ t_cur # None
    /\ t_res' = Some(IF IsSome(t_log) THEN verify(t_cur.v, t_log.v)
                     ELSE verify_single(t_cur.v))
    /\ t_res' # t_res
    /\ UNCHANGED <<t_log, t_cur, t_origin, t_line, t_tamper>>
    /\ UNCHANGED <<memVars, fileVars, queueVars, codecVars, routeVars, readVars, joinVars, prodVars>>

\* tx.to_string() of a record that verified: the stored line
TxStore ==
    /\ t_cur # None
    /\ t_origin = "built"
    /\ t_line = None
    /\ t_res = Some(Ok(Unit))
    /\ t_line' = Some(to_string(t_cur.v))
    /\ t_cur' = None
    /\ t_res' = None
    /\ UNCHANGED <<t_log, t_origin, t_tamper>>
    /\ UNCHANGED <<memVars, fileVars, queueVars, codecVars, routeVars, readVars, joinVars, prodVars>>

\* the text field of the stored line is changed to another value
TxTamperText(text) ==
    /\ t_line # None
    /\ t_tamper = "none"
    /\ t_cur = None
    /\ text # t_line.v[5]
    /\ t_line' = Some([t_line.v EXCEPT ![5] = text])
    /\ t_tamper' = "text"
    /\ UNCHANGED <<t_log, t_cur, t_origin, t_res>>
    /\ UNCHANGED <<memVars, fileVars, queueVars, codecVars, routeVars, readVars, joinVars, prodVars>>

\* the id field of the stored line is changed to another valid Id
TxTamperId(id) ==
    /\ t_line # None
    /\ t_tamper = "none"
    /\ t_cur = None
    /\ t_line.v[1] # FmtNum(id, ID_WIDTH)
    /\ t_line' = Some([t_line.v EXCEPT ![1] = FmtNum(id, ID_WIDTH)])
    /\ t_tamper' = "id"
    /\ UNCHANGED <<t_log, t_cur, t_origin, t_res>>
    /\ UNCHANGED <<memVars, fileVars, queueVars, codecVars, routeVars, readVars, joinVars, prodVars>>

\* the hash field of the stored line is changed to another value
TxTamperHash ==
    /\ t_line # None
    /\ t_tamper = "none"
    /\ t_cur = None
    /\ \E tok \in TamperHashes(t_line.v[6]) :
          /\ tok # t_line.v[6]
          /\ t_line' = Some([t_line.v EXCEPT ![6] = tok])
    /\ t_tamper' = "hash"
    /\ UNCHANGED <<t_log, t_cur, t_origin, t_res>>
    /\ UNCHANGED <<memVars, fileVars, queueVars, codecVars, routeVars, readVars, joinVars, prodVars>>

\* Transaction::parse(line)
TxParse ==
    /\ t_line # None
    /\ t_cur = None
    /\ t_origin # "parsed"
    /\ LET r == parse(t_line.v)
       IN  /\ t_res' = IF IsOk(r) THEN None ELSE Some(r)
           /\ t_cur' = IF IsOk(r) THEN Some(r.v) ELSE None
    /\ t_origin' = "parsed"
    /\ UNCHANGED <<t_log, t_line, t_tamper>>
    /\ UNCHANGED <<memVars, fileVars, queueVars, codecVars, routeVars, readVars, joinVars, prodVars>>

NextTx ==
    \/ \E id \in BuildIds, ts \in Times, gid \in BuildGids, pid \in BuildPids,
          text \in BuildTexts : TxBuild(id, ts, gid, pid, text)
    \/ TxAppend
    \/ TxVerify
    \/ TxStore
    \/ \E text \in TamperTexts : TxTamperText(text)
    \/ \E id \in MIN_ID..MAX_ID : TxTamperId(id)
    \/ TxTamperHash
    \/ TxParse

SpecTx == InitTx /\ [][NextTx]_vars

----------------------------------------------------------------------------
(* Claims about the record model *)

\* C1: a record built by with_log on a log whose last entry is prev, with
\* the Id prev.next_id(), passes verify(curr, prev); a first record built on
\* an empty log passes verify_single.
C1_VerifySound ==
    ( /\ t_origin = "built"
      /\ IsSome(t_cur)
      /\ t_res # None
      /\ (IsSome(t_log) => t_cur.v.id = next_id(t_log.v)) )
    => t_res = Some(Ok(Unit))

\* a built record with a predecessor has been verified and passed
C1_Witness ==
    /\ t_origin = "built"
    /\ IsSome(t_log)
    /\ IsSome(t_cur)
    /\ t_res = Some(Ok(Unit))

\* C2: after the text or the hash field of a stored, verified record was
\* changed to another value and the line parsed again, verify against the
\* same predecessor fails with the mismatched-hash error.
C2_TamperDetected ==
    ( /\ t_tamper \in {"text", "hash"}
      /\ t_origin = "parsed"
      /\ IsSome(t_cur)
      /\ t_res # None )
    => t_res = Some(Err("Missmatched hashes"))

\* C19: verify against a predecessor fails with the non-consecutive-Id
\* error when the record's Id is not the predecessor's next Id, whatever
\* the hash; otherwise it fails with the mismatched-hash error when the
\* hash recomputed from the record's fields and the predecessor's hash
\* string (none for a first record) is not the stored hash; otherwise it
\* returns Ok.
C19_VerifyOrder ==
    ( /\ IsSome(t_cur)
      /\ t_res # None )
    => t_res.v =
          IF /\ IsSome(t_log)
             /\ t_cur.v.id # (IF t_log.v.id = MAX_ID THEN MIN_ID
                                ELSE t_log.v.id + 1)
          THEN Err("Non-consecutive IDs")
          ELSE IF t_cur.v.hash #
                    Sha256(to_data_string(t_cur.v)
                             \o (IF IsSome(t_log) THEN <<t_log.v.hash_str>>
                                  ELSE <<>>))
          THEN Err("Missmatched hashes")
          ELSE Ok(Unit)

\* a record with neither the next Id nor the matching hash was verified
C19_Witness ==
    /\ IsSome(t_cur)
    /\ IsSome(t_log)
    /\ t_tamper = "id"
    /\ t_cur.v.hash # Sha256(to_data_string(t_cur.v) \o <<t_log.v.hash_str>>)
    /\ t_res = Some(Err("Non-consecutive IDs"))

----------------------------------------------------------------------------
(* In-memory index scenario: a FullTransactionLog that starts empty and   *)
(* is changed by create alone                                             *)

InitMem ==
    /\ m_log = EmptyMap
    /\ m_created = <<>>
    /\ TxIdle /\ FileIdle /\ QueueIdle /\ CodecIdle /\ RouteIdle /\ ReadIdle /\ JoinIdle /\ ProdIdle

\* FullTransactionLog::create(data, Some(time))
MemCreate(data, time) ==
    /\ Len(m_created) < MaxCreates
    /\ LET r == Full_create(m_log, data, time)
       IN  /\ m_log' = r.log
           /\ m_created' = Append(m_created, r.ret.v)
    /\ UNCHANGED <<txVars, fileVars, queueVars, codecVars, routeVars, readVars, joinVars, prodVars>>

NextMem == \E data \in Datas, time \in Times : MemCreate(data, time)

SpecMem == InitMem /\ [][NextMem]_vars

\* C3: every record an earlier create returned is still what get_by_id
\* returns for its Id, also after the Id counter has reached MAX_ID.
C3_CreatedRecordsKept ==
    \A i \in 1..Len(m_created) :
        Full_get_by_id(m_log, m_created[i].id) = Ok(Some(m_created[i]))

\* the chain of a sequence of records: consecutive Ids, each record
\* verifying against the one before it, the first against no predecessor
IsChain(all) ==
    \A i \in 1..Len(all) :
        /\ i > 1 => all[i].id = next_id(all[i - 1])
        /\ IsOk(verify_transaction(all[i], IF i > 1 THEN Some(all[i - 1])
                                             ELSE None))

\* C4: get_all() of an index that started empty and was changed only by
\* create is in ascending Id order without gaps, and each record verifies
\* against the record before it.
C4_IndexIsChain ==
    LET all == Full_get_all(m_log).v
    IN  /\ \A i \in 2..Len(all) : all[i - 1].id < all[i].id
        /\ IsChain(all)

\* C20: create on the index gives the record the Id MIN_ID when the index
\* is empty and the next Id of last() otherwise, chains it against the
\* current last entry, and last() right after the create is the record
\* returned.
C20_CreateThenLast ==
    [][ m_created' # m_created =>
          /\ m_created'[Len(m_created')].id =
                IF DOMAIN m_log = {} THEN MIN_ID
                ELSE IF Full_last(m_log).v.v.id = MAX_ID THEN MIN_ID
                ELSE Full_last(m_log).v.v.id + 1
          /\ IsOk(verify_transaction(m_created'[Len(m_created')],
                                     Full_last(m_log).v))
          /\ Full_last(m_log') = Ok(Some(m_created'[Len(m_created')]))
      ]_vars

----------------------------------------------------------------------------
(* File log scenario: a SimpleFileLog on the file found at its path        *)

InitFile ==
    /\ file \in InitFiles
    /\ full_log = EmptyMap
    /\ d_state = "file"
    /\ d_ret = None
    /\ d_clean = (file = FileOf(<<>>))
    /\ TxIdle /\ MemIdle /\ QueueIdle /\ CodecIdle /\ RouteIdle /\ ReadIdle /\ JoinIdle /\ ProdIdle

\* SimpleFileLog::create(data, Some(time)); the append itself succeeds.
\* The scenario is bounded by MaxLines and by its reads: the creates of a run
\* come before its reads.
FileCreate(data, time) ==
    /\ d_state = "file"
    /\ f_read = None
    /\ Len(file.lines) < MaxLines
    /\ \E r \in {File_create(file, data, time, TRUE)} :
           /\ file' = r.file
           /\ d_ret' = Some(r.ret)
    /\ UNCHANGED <<full_log, d_state, d_clean>>
    /\ UNCHANGED <<txVars, memVars, queueVars, codecVars, routeVars, readVars, joinVars, prodVars>>

\* SimpleFileLog::create(data, Some(time)); the open, seek or write fails
FileCreateIoFail(data, time) ==
    /\ d_state = "file"
    /\ f_read = None
    /\ \E r \in {File_create(file, data, time, FALSE)} :
           /\ file' = r.file
           /\ d_ret' = Some(r.ret)
    /\ UNCHANGED <<full_log, d_state, d_clean>>
    /\ UNCHANGED <<txVars, memVars, queueVars, codecVars, routeVars, readVars, joinVars, prodVars>>

\* a call of last() on the file log
FileLast ==
    /\ d_state = "file"
    /\ f_read' = Some([op |-> "last", ret |-> File_last(file)])
    /\ UNCHANGED <<txVars, memVars, fileVars, queueVars, codecVars, routeVars, joinVars, prodVars>>

\* a call of get_all() on the file log
FileGetAll ==
    /\ d_state = "file"
    /\ f_read' = Some([op |-> "get_all", ret |-> File_get_all(file)])
    /\ UNCHANGED <<txVars, memVars, fileVars, queueVars, codecVars, routeVars, joinVars, prodVars>>

NextFile ==
    \/ \E data \in Datas, time \in Times : FileCreate(data, time)
    \/ \E data \in Datas, time \in Times : FileCreateIoFail(data, time)
    \/ FileLast
    \/ FileGetAll

SpecFile == InitFile /\ [][NextFile]_vars

----------------------------------------------------------------------------
(* Dual log scenario: DualLog::load on the file found, then creates        *)

InitDual ==
    /\ file \in InitFiles
    /\ full_log = EmptyMap
    /\ d_state = "unloaded"
    /\ d_ret = None
    /\ d_clean = (file = FileOf(<<>>))
    /\ TxIdle /\ MemIdle /\ QueueIdle /\ CodecIdle /\ RouteIdle /\ ReadIdle /\ JoinIdle /\ ProdIdle

\* DualLog::load(path)
DualLoad ==
    /\ d_state = "unloaded"
    /\ \E r \in {Dual_load(file)} :
           /\ full_log' = IF IsOk(r) THEN r.v ELSE full_log
           /\ d_state' = IF IsOk(r) THEN "loaded" ELSE "failed"
           /\ d_ret' = IF IsOk(r) THEN None ELSE Some(r)
    /\ UNCHANGED <<file, d_clean>>
    /\ UNCHANGED <<txVars, memVars, queueVars, codecVars, routeVars, readVars, joinVars, prodVars>>

\* DualLog::create(data, Some(time)); the append itself succeeds
DualCreate(data, time) ==
    /\ d_state = "loaded"
    /\ Len(file.lines) < MaxLines
    /\ \E r \in {Dual_create(full_log, file, data, time, TRUE)} :
           /\ file' = r.file
           /\ full_log' = r.full_log
           /\ d_ret' = Some(r.ret)
    /\ UNCHANGED <<d_state, d_clean>>
    /\ UNCHANGED <<txVars, memVars, queueVars, codecVars, routeVars, readVars, joinVars, prodVars>>

\* DualLog::create(data, Some(time)); the open, seek or write fails
DualCreateIoFail(data, time) ==
    /\ d_state = "loaded"
    /\ \E r \in {Dual_create(full_log, file, data, time, FALSE)} :
           /\ file' = r.file
           /\ full_log' = r.full_log
           /\ d_ret' = Some(r.ret)
    /\ UNCHANGED <<d_state, d_clean>>
    /\ UNCHANGED <<txVars, memVars, queueVars, codecVars, routeVars, readVars, joinVars, prodVars>>

NextDual ==
    \/ DualLoad
    \/ \E data \in Datas, time \in Times : DualCreate(data, time)
    \/ \E data \in Datas, time \in Times : DualCreateIoFail(data, time)

SpecDual == InitDual /\ [][NextDual]_vars

----------------------------------------------------------------------------
(* Claims about the file log and the dual log *)

\* C5: after every successful DualLog.create the index's last() and the
\* file log's last() are the same record.
C5_DualLockstep ==
    ( /\ d_state = "loaded"
      /\ IsSome(d_ret)
      /\ IsOk(d_ret.v) )
    => File_last(file) = Dual_last(full_log)

\* C6: a DualLog.create that does not return a record leaves the index as
\* it was: last(), get_by_id and get_all answer as before the call.
C6_FailedCreateKeepsIndex ==
    [][ ( /\ d_state = "loaded"
          /\ IsSome(d_ret')
          /\ ~IsOk(d_ret'.v) )
        => /\ Dual_last(full_log') = Dual_last(full_log)
           /\ Dual_get_all(full_log') = Dual_get_all(full_log)
           /\ \A id \in MIN_ID..MAX_ID :
                 Dual_get_by_id(full_log', id) = Dual_get_by_id(full_log, id)
      ]_vars

\* the append of a create failed on a loaded, non-empty dual log
C6_Witness ==
    /\ d_state = "loaded"
    /\ d_ret = Some(Err("Io: append failed"))
    /\ DOMAIN full_log # {}

\* C7: on a file written by successful creates alone, last() returns the
\* last record of get_all().
C7_TailScanIsLast ==
    ( /\ d_clean
      /\ file.lines # <<>> )
    => /\ IsOk(File_get_all(file))
       /\ File_last(file) =
              Ok(Some(File_get_all(file).v[Len(File_get_all(file).v)]))

\* C8: last() answers Ok(None) only for an empty file and signals a fault
\* for a non-empty file whose final line does not parse, so that no create
\* takes a file with a damaged tail for an empty ledger: a create that
\* finds last() = Ok(None) runs on an empty file, and a create on a file
\* whose final line does not parse returns no record.
C8_NoneOnlyWhenEmpty ==
    [][ /\ ( /\ d_state = "file"
             /\ d_ret' # d_ret
             /\ File_last(file) = Ok(None) )
           => FileBytes(file.lines) = 0
        /\ ( /\ d_state = "file"
             /\ d_ret' # d_ret
             /\ file.lines # <<>>
             /\ ~IsSome(ParseOk(file.lines[Len(file.lines)])) )
           => ~IsOk(d_ret'.v)
      ]_vars

\* C21: a successful create of the file log leaves the previous content as
\* it was and adds to it exactly one line, the line of the record returned.
C21_CreateAppendsOneLine ==
    [][ ( /\ d_state = "file"
          /\ <<file, d_ret>>' # <<file, d_ret>>
          /\ IsSome(d_ret')
          /\ IsOk(d_ret'.v) )
        => /\ file'.exists
           /\ Len(file'.lines) = Len(file.lines) + 1
           /\ SubSeq(file'.lines, 1, Len(file.lines)) = file.lines
           /\ file'.lines[Len(file'.lines)] = to_string(d_ret'.v.v)
      ]_vars

\* a create has added a line to a file that held lines before
C21_Witness ==
    /\ d_state = "file"
    /\ IsSome(d_ret)
    /\ IsOk(d_ret.v)
    /\ Len(file.lines) >= 2
    /\ file.lines[Len(file.lines)] = to_string(d_ret.v.v)

\* every line of the file is the line of a record
AllLinesParse(f) ==
    \A i \in 1..Len(f.lines) : IsOk(parse(f.lines[i]))

\* C22: on a file whose lines are all records, a record returned by last()
\* is the record of the final line, verified against the record of the line
\* before it when the file has two or more lines and against no predecessor
\* when it has one.
C22_LastIsVerifiedFinalLine ==
    ( /\ IsSome(f_read)
      /\ f_read.v.op = "last"
      /\ AllLinesParse(file)
      /\ IsOk(f_read.v.ret)
      /\ IsSome(f_read.v.ret.v) )
    => /\ file.lines # <<>>
       /\ parse(file.lines[Len(file.lines)])
              = Ok(f_read.v.ret.v.v)
       /\ IF Len(file.lines) >= 2
          THEN IsOk(verify(f_read.v.ret.v.v,
                            parse(file.lines[Len(file.lines) - 1]).v))
          ELSE IsOk(verify_single(f_read.v.ret.v.v))

\* what is wrong with line i of the file, the lines before it being sound:
\* it does not parse, or its record does not verify against the record of
\* the line before it (the first against no predecessor)
LineFault(f, i) ==
    IF IsErr(parse(f.lines[i])) THEN "Transaction"
    ELSE IF i = 1
         THEN IF IsErr(verify_single(parse(f.lines[i]).v))
              THEN "Verify" ELSE "none"
    ELSE IF IsErr(parse(f.lines[i - 1])) THEN "none"
    ELSE IF IsErr(verify(parse(f.lines[i]).v, parse(f.lines[i - 1]).v))
         THEN "Verify" ELSE "none"

FaultyLines(f) == {i \in 1..Len(f.lines) : LineFault(f, i) # "none"}

FirstFaultyLine(f) ==
    CHOOSE i \in FaultyLines(f) : \A j \in FaultyLines(f) : i <= j

\* C23: get_all of the file log returns the records of all lines in file
\* order when every line parses and every record verifies against the
\* record of the line before it; otherwise it returns the error of the
\* first line that fails, and no records.
C23_GetAllValidatesEveryLine ==
    ( /\ IsSome(f_read)
      /\ f_read.v.op = "get_all"
      /\ file.exists )
    => IF FaultyLines(file) = {}
       THEN f_read.v.ret = Ok([i \in 1..Len(file.lines) |-> parse(file.lines[i]).v])
       ELSE f_read.v.ret = Err(LineFault(file, FirstFaultyLine(file)))

\* get_all has returned an error for a file whose first line is sound
C23_Witness ==
    /\ IsSome(f_read)
    /\ f_read.v.op = "get_all"
    /\ Len(file.lines) >= 2
    /\ LineFault(file, 1) = "none"
    /\ IsErr(f_read.v.ret)

\* C28: a create of the file log whose read of the tail fails returns the
\* error of last() and leaves the file as it was.
C28_FailedTailFailsCreate ==
    [][ ( /\ d_state = "file"
          /\ <<file, d_ret>>' # <<file, d_ret>>
          /\ IsErr(File_last(file)) )
        => /\ d_ret' = Some(File_last(file))
           /\ file' = file
      ]_vars

\* a create has returned the verification error of last() on a file that
\* earlier creates wrote
C28_Witness ==
    /\ d_state = "file"
    /\ d_clean
    /\ d_ret = Some(Err("Verify"))
    /\ File_last(file) = Err("Verify")

\* C24: DualLog::load returns a store exactly when the whole file
\* validates, and the index of that store then holds the records of the
\* file: as many, in the same order, with the same last record.
C24_LoadMirrorsFile ==
    [][ ( /\ d_state = "unloaded"
          /\ d_state' # "unloaded" )
        => IF IsOk(File_get_all(file))
           THEN /\ d_state' = "loaded"
                /\ Full_get_all(full_log') = File_get_all(file)
                /\ Full_last(full_log')
                       = Ok(IF File_get_all(file).v = <<>> THEN None
                            ELSE Some(File_get_all(file).v[
                                          Len(File_get_all(file).v)]))
           ELSE /\ d_state' = "failed"
                /\ full_log' = EmptyMap
                /\ d_ret' = Some(File_get_all(file))
      ]_vars

\* C30: on a loaded dual log, after any number of creates, get_all() of
\* the dual log equals get_all() of the file log on the same file.
C30_DualGetAllIsFileGetAll ==
    d_state = "loaded" => Dual_get_all(full_log) = File_get_all(file)

\* C32: where no file exists, last(), next_id() and create() of the file
\* log return an I/O error and create does not create the file; on an
\* existing empty file last() returns None, next_id() MIN_ID, and a
\* successful create writes the record MIN_ID with no predecessor.
C32_MissingFileIsError ==
    /\ []( /\ ( d_state = "file" /\ ~file.exists )
              => /\ File_last(file) = Err("Io: No such file")
                 /\ TransactionLog_next_id(File_last(file))
                        = Err("Io: No such file")
                 /\ IsSome(d_ret) => d_ret = Some(Err("Io: No such file"))
                 /\ ( IsSome(f_read) /\ f_read.v.op = "last" )
                    => f_read.v.ret = Err("Io: No such file")
           /\ ( d_state = "file" /\ file = FileOf(<<>>) )
              => /\ File_last(file) = Ok(None)
                 /\ TransactionLog_next_id(File_last(file)) = Ok(MIN_ID) )
    /\ [][ /\ ( d_state = "file" /\ ~file.exists ) => ~file'.exists
           /\ ( /\ d_state = "file"
                /\ file = FileOf(<<>>)
                /\ file' # file )
              => /\ IsOk(d_ret'.v)
                 /\ d_ret'.v.v.id = MIN_ID
                 /\ IsOk(verify_single(d_ret'.v.v))
                 /\ file'.lines = <<to_string(d_ret'.v.v)>>
         ]_vars

\* create and then last() have been called where no file exists
C32_Witness ==
    /\ d_state = "file"
    /\ ~file.exists
    /\ d_ret = Some(Err("Io: No such file"))
    /\ f_read = Some([op |-> "last", ret |-> Err("Io: No such file")])

----------------------------------------------------------------------------
(* Write queue scenario: producers send messages, the worker thread of    *)
(* TransactionQueue::new receives them one at a time                      *)

InitQueue ==
    /\ chan = <<>>
    /\ queue = <<>>
    /\ wstate = "run"
    /\ q_log = EmptyMap
    /\ sent = <<>>
    /\ appended = <<>>
    /\ TxIdle /\ MemIdle /\ FileIdle /\ CodecIdle /\ RouteIdle /\ ReadIdle /\ JoinIdle /\ ProdIdle

Messages == {Queue(d) : d \in Drafts} \cup {Flush, Finish}

\* sender.send(msg) of a producer; the receiver is alive while the worker runs
Send(msg) ==
    /\ wstate = "run"
    /\ Len(sent) < MaxSends
    /\ chan' = Append(chan, msg)
    /\ sent' = Append(sent, msg)
    /\ UNCHANGED <<queue, wstate, q_log, appended>>
    /\ UNCHANGED <<txVars, memVars, fileVars, codecVars, routeVars, readVars, joinVars, prodVars>>

\* the Queue arm with a flush after the push_back
WorkerQueue_flushing ==
    /\ wstate = "run"
    /\ chan # <<>>
    /\ Head(chan).k = "Queue"
    /\ \E now \in NowTimes :
       \E r \in {flush(q_log, Append(queue, Head(chan).qtx), now)} :
          /\ q_log' = r.log
          /\ appended' = appended \o r.out
          /\ queue' = r.q
          /\ wstate' = IF r.panic THEN "panicked" ELSE "run"
    /\ chan' = Tail(chan)
    /\ UNCHANGED sent
    /\ UNCHANGED <<txVars, memVars, fileVars, codecVars, routeVars, readVars, joinVars, prodVars>>

\* receiver.recv() returns Queue(qtx)
WorkerQueue ==
    /\ wstate = "run"
    /\ chan # <<>>
    /\ Head(chan).k = "Queue"
    /\ queue' = Append(queue, Head(chan).qtx)
    /\ chan' = Tail(chan)
    /\ UNCHANGED <<wstate, q_log, sent, appended>>
    /\ UNCHANGED <<txVars, memVars, fileVars, codecVars, routeVars, readVars, joinVars, prodVars>>

\* the Flush arm with a break after the flush
WorkerFlush_with_break ==
    /\ wstate = "run"
    /\ chan # <<>>
    /\ Head(chan).k = "Flush"
    /\ \E now \in NowTimes :
       \E r \in {flush(q_log, queue, now)} :
          /\ q_log' = r.log
          /\ appended' = appended \o r.out
          /\ queue' = r.q
          /\ wstate' = IF r.panic THEN "panicked" ELSE "done"
    /\ chan' = Tail(chan)
    /\ UNCHANGED sent
    /\ UNCHANGED <<txVars, memVars, fileVars, codecVars, routeVars, readVars, joinVars, prodVars>>

\* receiver.recv() returns Flush
WorkerFlush ==
    /\ wstate = "run"
    /\ chan # <<>>
    /\ Head(chan).k = "Flush"
    /\ \E now \in NowTimes :
       \E r \in {flush(q_log, queue, now)} :
          /\ q_log' = r.log
          /\ appended' = appended \o r.out
          /\ queue' = r.q
          /\ wstate' = IF r.panic THEN "panicked" ELSE "run"
    /\ chan' = Tail(chan)
    /\ UNCHANGED sent
    /\ UNCHANGED <<txVars, memVars, fileVars, codecVars, routeVars, readVars, joinVars, prodVars>>

\* the Finish arm without the break
WorkerFinish_without_break ==
    /\ wstate = "run"
    /\ chan # <<>>
    /\ Head(chan).k = "Finish"
    /\ \E now \in NowTimes :
       \E r \in {finish_flush(q_log, queue, now)} :
          /\ q_log' = r.log
          /\ appended' = appended \o r.out
          /\ queue' = r.q
          /\ wstate' = IF r.panic THEN "panicked" ELSE "run"
    /\ chan' = Tail(chan)
    /\ UNCHANGED sent
    /\ UNCHANGED <<txVars, memVars, fileVars, codecVars, routeVars, readVars, joinVars, prodVars>>

\* receiver.recv() returns Finish
WorkerFinish ==
    /\ wstate = "run"
    /\ chan # <<>>
    /\ Head(chan).k = "Finish"
    /\ \E now \in NowTimes :
       \E r \in {finish_flush(q_log, queue, now)} :
          /\ q_log' = r.log
          /\ appended' = appended \o r.out
          /\ queue' = r.q
          /\ wstate' = IF r.panic THEN "panicked" ELSE "done"
    /\ chan' = Tail(chan)
    /\ UNCHANGED sent
    /\ UNCHANGED <<txVars, memVars, fileVars, codecVars, routeVars, readVars, joinVars, prodVars>>

\* TransactionQueue::join returns: the worker thread has ended
Join ==
    /\ wstate \in {"done", "panicked"}
    /\ joined = None
    /\ joined' = Some(join(wstate))
    /\ UNCHANGED <<txVars, memVars, fileVars, queueVars, codecVars, routeVars, readVars, prodVars>>

NextQueue ==
    \/ \E msg \in Messages : Send(msg)
    \/ WorkerQueue
    \/ WorkerFlush
    \/ WorkerFinish
    \/ Join

SpecQueue == InitQueue /\ [][NextQueue]_vars

\* sender.send(msg) in the runs checked for termination
SendFair(msg) ==
    /\ Len(sent) < MaxFairSends
    /\ Send(msg)

NextQueueFair ==
    \/ \E msg \in Messages : SendFair(msg)
    \/ WorkerQueue
    \/ WorkerFlush
    \/ WorkerFinish
    \/ Join

\* the worker thread and the caller of join are scheduled fairly
SpecQueueFair ==
    /\ InitQueue
    /\ [][NextQueueFair]_vars
    /\ WF_vars(WorkerQueue)
    /\ WF_vars(WorkerFlush)
    /\ WF_vars(WorkerFinish)
    /\ WF_vars(Join)

----------------------------------------------------------------------------
(* Producers scenario: threads with cloned senders send their scripts to   *)
(* one write queue in any interleaving                                     *)

\* sender.send(msg) of producer p, for the next message of its script
ProducerSend(p) ==
    /\ wstate = "run"
    /\ p_pc[p] < Len(Script(p))
    /\ chan' = Append(chan, Script(p)[p_pc[p] + 1])
    /\ sent' = Append(sent, Script(p)[p_pc[p] + 1])
    /\ p_pc' = [p_pc EXCEPT ![p] = @ + 1]
    /\ UNCHANGED <<queue, wstate, q_log, appended>>
    /\ UNCHANGED <<txVars, memVars, fileVars, codecVars, routeVars, readVars, joinVars>>

NextProducers ==
    \/ \E p \in Producers : ProducerSend(p)
    \/ WorkerQueue
    \/ WorkerFlush
    \/ WorkerFinish
    \/ Join

SpecProducers == InitQueue /\ [][NextProducers]_vars

----------------------------------------------------------------------------
(* Claims about the write queue *)

DraftOf(tx) == QueuedTransaction(tx.text, tx.group_id, tx.process_id)

IsQueueMsg(m) == m.k = "Queue"

\* the drafts of the Queue messages of a sequence of messages, in order
DraftsOf(msgs) ==
    LET qs == SelectSeq(msgs, IsQueueMsg)
    IN  [i \in 1..Len(qs) |-> qs[i].qtx]

\* the messages the worker has received so far, in order
Received == SubSeq(sent, 1, Len(sent) - Len(chan))

FirstFinish == CHOOSE i \in 1..Len(sent) :
                  /\ sent[i] = Finish
                  /\ \A j \in 1..(i - 1) : sent[j] # Finish

\* C10: when the worker has left its loop after Finish, its buffer is empty
\* and every draft sent before that Finish has been appended.
C10_FinishDrains ==
    wstate = "done" =>
        /\ queue = <<>>
        /\ [i \in 1..Len(appended) |-> DraftOf(appended[i])]
              = DraftsOf(SubSeq(sent, 1, FirstFinish - 1))

\* the worker has left its loop and the flush of Finish appended drafts
C10_Witness ==
    /\ wstate = "done"
    /\ Len(appended) >= 2
    /\ \A i \in 1..Len(sent) : sent[i] # Flush

ValidDrafts == {d \in Drafts : IsOk(check_input(MIN_ID, d.gid, d.pid, d.text))}

\* the messages sent are N Queue messages of valid drafts, then Flush, then
\* Finish, and the worker has received them all and left its loop
QueuedFlushedFinished(N) ==
    /\ Len(sent) = N + 2
    /\ \A i \in 1..N : IsQueueMsg(sent[i]) /\ sent[i].qtx \in ValidDrafts
    /\ sent[N + 1] = Flush
    /\ sent[N + 2] = Finish
    /\ chan = <<>>
    /\ wstate # "run"

\* C11: N valid drafts enqueued on a queue over an empty store, then Flush,
\* then Finish, leave a store of exactly N records with the Ids MIN_ID,
\* MIN_ID + 1, ..., each verifying against the one before it.
C11_AllDraftsBecomeRecords ==
    \A N \in 0..MaxSends :
        QueuedFlushedFinished(N) =>
            LET all == Full_get_all(q_log).v
            IN  /\ wstate = "done"
                /\ Len(all) = N
                /\ Len(appended) = N
                /\ \A i \in 1..Len(all) : all[i].id = MIN_ID + (i - 1)
                /\ IsChain(all)

\* C12: the worker's buffer never holds more than QUEUE_SIZE drafts,
\* whatever number of Queue messages arrives between two flushes.
C12_BufferBounded == Len(queue) <= QUEUE_SIZE

\* a draft the builder refuses
BadDraft(d) == IsErr(check_input(MIN_ID, d.gid, d.pid, d.text))

\* the worker takes a message off the channel in this step
Receives(kinds) ==
    /\ chan # <<>>
    /\ Head(chan).k \in kinds
    /\ chan' = Tail(chan)

C26_OnlyFlushChangesStore ==
    [][ /\ Receives({"Queue"})
           => /\ queue' = Append(queue, Head(chan).qtx)
              /\ UNCHANGED <<q_log, appended>>
        /\ (q_log' # q_log \/ appended' # appended)
           => /\ Receives({"Flush", "Finish"})
              /\ \A i \in (Len(appended) + 1)..Len(appended') :
                    /\ appended'[i].timestamp \in NowTimes
                    /\ appended'[i].id \in MIN_ID..MAX_ID
      ]_vars

\* a draft waits in the buffer after an earlier flush has changed the store
C26_Witness ==
    /\ wstate = "run"
    /\ queue # <<>>
    /\ appended # <<>>
    /\ DOMAIN q_log # {}

\* the drafts of producer p among the records appended, in ledger order
AppendedOf(p) ==
    SelectSeq([i \in 1..Len(appended) |-> DraftOf(appended[i])],
              LAMBDA d : \E i \in 1..Len(DraftsOf(Script(p))) :
                             DraftsOf(Script(p))[i] = d)

\* C29: with several producers sending through cloned senders, in every
\* interleaving the drafts of each producer are appended in the order in
\* which it sent them, records are appended only by the worker while it
\* handles one Flush or Finish, and the ledger has consecutive Ids
\* starting at MIN_ID with every record verifying against the one before.
C29_ProducersSerialized ==
    /\ [](/\ \A p \in Producers :
               AppendedOf(p)
                 = SubSeq(DraftsOf(Script(p)), 1, Len(AppendedOf(p)))
          /\ Len(Full_get_all(q_log).v) = Len(appended)
          /\ \A i \in 1..Len(Full_get_all(q_log).v) :
                 Full_get_all(q_log).v[i].id = MIN_ID + (i - 1)
          /\ IsChain(Full_get_all(q_log).v))
    /\ [][(q_log' # q_log \/ appended' # appended)
             => Receives({"Flush", "Finish"})]_vars

\* a Finish message has been sent
FinishSent == \E i \in 1..Len(sent) : sent[i] = Finish

\* C27: under fair scheduling, once a Finish message has been sent the
\* worker, unless a flush fails, leaves its loop and join() returns Ok.
C27_FinishTerminates ==
    FinishSent ~> (wstate = "panicked" \/ (wstate = "done" /\ joined = Some(Ok(Unit))))

\* the worker has left its loop after Finish and join() has returned Ok
C27_Witness ==
    /\ FinishSent
    /\ wstate = "done"
    /\ appended # <<>>
    /\ joined = Some(Ok(Unit))

\* C31: the worker leaves its loop only by receiving Finish or by a
\* failure in a flush, and join() returns only after it has left: while no
\* Finish has been sent and no draft that fails has been sent, the worker
\* runs and join() has not returned.
C31_StopsOnlyByFinishOrFailure ==
    /\ wstate = "done"
       => \E i \in 1..Len(Received) : Received[i] = Finish
    /\ wstate = "panicked"
       => \E i \in 1..Len(DraftsOf(Received)) :
              BadDraft(DraftsOf(Received)[i])
    /\ IsSome(joined) => wstate \in {"done", "panicked"}
    /\ ( /\ ~FinishSent
         /\ \A i \in 1..Len(DraftsOf(sent)) : ~BadDraft(DraftsOf(sent)[i]) )
       => /\ wstate = "run"
          /\ joined = None

\* the worker has received every message that was sent, flushed drafts into
\* the store, and still runs, no Finish having been sent
C31_Witness ==
    /\ ~FinishSent
    /\ Len(sent) = MaxSends
    /\ chan = <<>>
    /\ appended # <<>>
    /\ wstate = "run"
    /\ joined = None

----------------------------------------------------------------------------
(* Codec scenario: the builder, to_string, parse and next_id applied to    *)
(* given arguments and to given lines (the steps of the tests parse1 and   *)
(* parse2 of transaction.rs)                                               *)

\* arguments a caller gives to the builder; `prev` is log.last()
CodecArgs ==
    [id : BuildIds,
     time : Times \cup NowTimes,
     gid : {0, 99, 100, 255},
     pid : {0, 99, 100},
     text : {Text("a", 1), Text("ue", 1), Text("a", 0)}
              \cup {Text(c, 1) : c \in INVALID_CHAR},
     prev : {None, Some(FirstRecord)}]

\* lines a caller gives to parse: six fields, each written well or badly
CodecFullLines ==
    {<<f1, f2, f3, f4, f5, f6>> :
        f1 \in {NumTok(1, ID_WIDTH), NumTok(1, 1), NumTok(0, ID_WIDTH),
                NumTok(MAX_ID + 1, ID_WIDTH), BadTok(2)},
        f2 \in {TsTok(0), BadTok(TS_BYTES)},
        f3 \in {NumTok(0, GP_WIDTH), NumTok(5, 1), NumTok(100, 3),
                NumTok(256, 3), BadTok(2)},
        f4 \in {NumTok(1, GP_WIDTH), NumTok(100, 3), BadTok(2)},
        f5 \in {Text("a", 1), Text("TAB", 1)},
        f6 \in {HexTok(FirstRecord.hash, "upper", 0)}
                 \cup TamperHashes(HexTok(FirstRecord.hash, "upper", 0))}

\* the same lines, those cut after fewer fields, and those with one more
CodecLines ==
    CodecFullLines
      \cup {SubSeq(l, 1, n) : l \in CodecFullLines, n \in 0..5}
      \cup {Append(l, BadTok(1)) : l \in CodecFullLines}

InitCodec ==
    /\ \/ /\ c_step = "args"
          /\ c_in \in CodecArgs
          /\ c_line = None
       \/ /\ c_step = "line"
          /\ c_in = None
          /\ c_line \in {Some(l) : l \in CodecLines}
    /\ c_built = None
    /\ c_rec = None
    /\ c_str = None
    /\ c_parse = None
    /\ c_next = None
    /\ TxIdle /\ MemIdle /\ FileIdle /\ QueueIdle /\ RouteIdle /\ ReadIdle /\ JoinIdle /\ ProdIdle

\* Transaction::build().with_id(..)...try_finish_with_log(&log)
CodecBuild ==
    /\ c_step = "args"
    /\ \E r \in {with_log(c_in.prev, c_in.id, c_in.time, c_in.gid, c_in.pid,
                          c_in.text)} :
          /\ c_built' = Some(r)
          /\ c_rec' = Result_ok(r)
    /\ c_step' = "built"
    /\ UNCHANGED <<c_in, c_line, c_str, c_parse, c_next>>
    /\ UNCHANGED <<txVars, memVars, fileVars, queueVars, routeVars, readVars, joinVars, prodVars>>

\* t.to_string() of the record built
CodecToString ==
    /\ c_step = "built"
    /\ IsSome(c_rec)
    /\ c_str' = Some(to_string(c_rec.v))
    /\ c_step' = "str"
    /\ UNCHANGED <<c_in, c_line, c_built, c_rec, c_parse, c_next>>
    /\ UNCHANGED <<txVars, memVars, fileVars, queueVars, routeVars, readVars, joinVars, prodVars>>

\* Transaction::parse(&t.to_string())
CodecParseBack ==
    /\ c_step = "str"
    /\ c_parse' = Some(parse(c_str.v))
    /\ c_step' = "back"
    /\ UNCHANGED <<c_in, c_line, c_built, c_rec, c_str, c_next>>
    /\ UNCHANGED <<txVars, memVars, fileVars, queueVars, routeVars, readVars, joinVars, prodVars>>

\* Transaction::parse(input)
CodecParse ==
    /\ c_step = "line"
    /\ \E r \in {parse(c_line.v)} :
          /\ c_parse' = Some(r)
          /\ c_rec' = Result_ok(r)
    /\ c_step' = "parsed"
    /\ UNCHANGED <<c_in, c_line, c_built, c_str, c_next>>
    /\ UNCHANGED <<txVars, memVars, fileVars, queueVars, routeVars, readVars, joinVars, prodVars>>

\* parsed.unwrap().to_string()
CodecToStringAgain ==
    /\ c_step = "parsed"
    /\ IsSome(c_rec)
    /\ c_str' = Some(to_string(c_rec.v))
    /\ c_step' = "again"
    /\ UNCHANGED <<c_in, c_line, c_built, c_rec, c_parse, c_next>>
    /\ UNCHANGED <<txVars, memVars, fileVars, queueVars, routeVars, readVars, joinVars, prodVars>>

\* tx.next_id() of the record at hand
CodecNextId ==
    /\ IsSome(c_rec)
    /\ c_next = None
    /\ c_next' = Some(next_id(c_rec.v))
    /\ UNCHANGED <<c_step, c_in, c_line, c_built, c_rec, c_str, c_parse>>
    /\ UNCHANGED <<txVars, memVars, fileVars, queueVars, routeVars, readVars, joinVars, prodVars>>

NextCodec ==
    \/ CodecBuild
    \/ CodecToString
    \/ CodecParseBack
    \/ CodecParse
    \/ CodecToStringAgain
    \/ CodecNextId

SpecCodec == InitCodec /\ [][NextCodec]_vars

----------------------------------------------------------------------------
(* Claims about the codec *)

\* C13: the line of a record that construction accepted parses to a record
\* equal to it in every field, the timestamp included.
C13_ParseOfToString ==
    c_step = "back" => c_parse = Some(Ok(c_rec.v))

\* C14: a line that parse accepts is the line to_string writes for the
\* record parsed from it.
C14_ToStringOfParse ==
    c_step = "again" => c_str = c_line

\* a line with one of the defects parse is to refuse: a field missing, a
\* numeric field that is no number or out of range, a timestamp not of the
\* pattern, a hash string of odd length or with a character that is no
\* upper-case hex digit, or fields after the hash
IsNumIn(tok, lo, hi) == tok.k = "num" /\ tok.val >= lo /\ tok.val <= hi

Defective(line) ==
    \/ Len(line) < 6
    \/ Len(line) > 6
    \/ ~IsNumIn(line[1], MIN_ID, MAX_ID)
    \/ line[2].k # "ts"
    \/ ~IsNumIn(line[3], MIN_GID, MAX_GID)
    \/ ~IsNumIn(line[4], MIN_PID, MAX_PID)
    \/ line[6].k # "hex"
    \/ line[6].form \in {"odd", "nonhex", "lower"}

\* C15: parse of a line with one of these defects fails and returns no
\* record.
C15_DefectiveLineRejected ==
    ( /\ c_step \in {"parsed", "again"}
      /\ Defective(c_line.v) )
    => /\ IsErr(c_parse.v)
       /\ c_rec = None

\* the arguments construction is to refuse
InvalidArgs(a) ==
    \/ a.id < 1
    \/ a.id > MAX_ID
    \/ a.gid < 0 \/ a.gid > 99
    \/ a.pid < 0 \/ a.pid > 99
    \/ a.text.n > 0 /\ a.text.ch \in {"LF", "CR", "TAB", "SEMI", "NUL"}

C17_NextId ==
    IsSome(c_next) =>
        /\ c_next.v = IF c_rec.v.id = MAX_ID THEN MIN_ID ELSE c_rec.v.id + 1
        /\ c_next.v >= MIN_ID
        /\ c_next.v <= MAX_ID

\* next_id was taken of a record with the Id MAX_ID
C17_Witness ==
    /\ IsSome(c_next)
    /\ c_rec.v.id = MAX_ID
    /\ c_next = Some(MIN_ID)

----------------------------------------------------------------------------
(* Server scenario: the handlers of PUT /transactions (write_transaction   *)
(* of routes.rs) on one DualLog behind a Mutex, loaded from an empty file  *)

InitRoute ==
    /\ file = FileOf(<<>>)
    /\ full_log = EmptyMap
    /\ d_state = "served"
    /\ d_ret = None
    /\ d_clean = TRUE
    /\ r_pc = [h \in Handlers |-> "idle"]
    /\ r_lock = None
    /\ r_in = [h \in Handlers |-> None]
    /\ r_last = [h \in Handlers |-> None]
    /\ r_created = <<>>
    /\ r_count = 0
    /\ TxIdle /\ MemIdle /\ QueueIdle /\ CodecIdle /\ ReadIdle /\ JoinIdle /\ ProdIdle

\* the input parsed into time and data, then tx_log.0.lock(); on a
\* poisoned mutex lock() is an error and the request ends with status 500
\* without a create
RouteLock(h, data, time) ==
    /\ r_pc[h] = "idle"
    /\ r_count < MaxRequests
    /\ IsOk(Mutex_lock(r_lock, h))
    /\ r_lock' = Mutex_lock(r_lock, h).v
    /\ r_pc' = [r_pc EXCEPT ![h] = "locked"]
    /\ r_in' = [r_in EXCEPT ![h] = Some([data |-> data, time |-> time])]
    /\ r_count' = r_count + 1
    /\ UNCHANGED <<r_last, r_created>>
    /\ UNCHANGED <<txVars, memVars, fileVars, queueVars, codecVars, readVars, joinVars, prodVars>>

\* inside create, under the guard: self.next_id() and self.last() of the
\* file log; a panic of last() poisons the mutex
RouteLast(h) ==
    /\ r_pc[h] = "locked"
    /\ \E last \in {File_last(file)} :
          /\ r_last' = [r_last EXCEPT ![h] = Some(last)]
          /\ r_pc' = [r_pc EXCEPT ![h] = IF last.k = "Panic" THEN "failed"
                                          ELSE "read"]
          /\ r_lock' = IF last.k = "Panic" THEN Poisoned ELSE r_lock
    /\ UNCHANGED <<r_in, r_created, r_count>>
    /\ UNCHANGED <<txVars, memVars, fileVars, queueVars, codecVars, readVars, joinVars, prodVars>>

\* the rest of create, under the guard: the record is built, appended to
\* the file and inserted into the index; the guard is dropped at the end of
\* the statement
RouteAppend(h, io_ok) ==
    /\ r_pc[h] = "read"
    /\ io_ok \/ IsOk(r_last[h].v)
    /\ \E r \in {Dual_insert(full_log,
                             File_create_after(r_last[h].v, file,
                                               r_in[h].v.data, r_in[h].v.time,
                                               io_ok))} :
          /\ file' = r.file
          /\ full_log' = r.full_log
          /\ d_ret' = Some(r.ret)
          /\ r_created' = IF IsOk(r.ret) THEN Append(r_created, r.ret.v)
                          ELSE r_created
    /\ r_lock' = IF r_lock = Some(h) THEN None ELSE r_lock
    /\ r_pc' = [r_pc EXCEPT ![h] = "idle"]
    /\ r_in' = [r_in EXCEPT ![h] = None]
    /\ r_last' = [r_last EXCEPT ![h] = None]
    /\ UNCHANGED <<d_state, d_clean, r_count>>
    /\ UNCHANGED <<txVars, memVars, queueVars, codecVars, readVars, joinVars, prodVars>>

NextRoute ==
    \/ \E h \in Handlers, data \in Datas, time \in Times :
          RouteLock(h, data, time)
    \/ \E h \in Handlers : RouteLast(h)
    \/ \E h \in Handlers : RouteAppend(h, TRUE)
    \/ \E h \in Handlers : RouteAppend(h, FALSE)

SpecRoute == InitRoute /\ [][NextRoute]_vars

\* C18: every create runs under the lock (at most one handler is inside
\* create, and it holds the mutex), no two created records have the same
\* Id, and every created record verifies against the one created
\* immediately before it.
C18_LockedCreatesChain ==
    /\ \A h \in Handlers :
          r_pc[h] \in {"locked", "read"} => r_lock = Some(h)
    /\ \A i, j \in 1..Len(r_created) :
          i # j => r_created[i].id # r_created[j].id
    /\ \A i \in 1..Len(r_created) :
          IsOk(verify_transaction(r_created[i],
                                  IF i > 1 THEN Some(r_created[i - 1])
                                  ELSE None))

====
